---- MODULE Spec2Model ----
(***************************************************************************)
(* Calendar helpers of the productivity application: the occurrence        *)
(* expander generateEventInstances and the conflict detector               *)
(* detectConflicts (client/src/utils/calendarHelpers, the current version  *)
(* of which is src/unnamed/part_002).                                      *)
(*                                                                         *)
(* Time.  A Date is modelled by its timestamp, an integer number of ticks; *)
(* a calendar day holds TicksPerDay ticks, so a timestamp is               *)
(* day * TicksPerDay + tick-of-day.  Day 0 is 2023-12-01 (a Friday) and    *)
(* the calendar runs to 2024-12-31, which covers every date the bounded    *)
(* inputs let a cursor reach.  Local time has no daylight-saving shift.    *)
(***************************************************************************)
EXTENDS Integers, Sequences, FiniteSets, TLC

VARIABLES events, viewStart, viewEnd, idx, currentDate, instances, pc,
          allItems, currentItem, otherItem, conflicts, cpc,
          tasks, now, rolled, rpc,
          snapshot, calendarItems, tpc,
          items, calendarDays, workload, workloadColor, wpc,
          project, hash, charIndex, projectColor, gpc,
          calendarEvents, monthWindow, yearWindow, monthResult, yearResult, vpc,
          dbTasks, dbGoals, storeTasks, storeGoals, linkedItems, toggledId, newCompletedState, linkedGoals, history, spc

vars == <<events, viewStart, viewEnd, idx, currentDate, instances, pc,
          allItems, currentItem, otherItem, conflicts, cpc,
          tasks, now, rolled, rpc,
          snapshot, calendarItems, tpc,
          items, calendarDays, workload, workloadColor, wpc,
          project, hash, charIndex, projectColor, gpc,
          calendarEvents, monthWindow, yearWindow, monthResult, yearResult, vpc,
          dbTasks, dbGoals, storeTasks, storeGoals, linkedItems, toggledId, newCompletedState, linkedGoals, history, spc>>

expVars == <<events, viewStart, viewEnd, idx, currentDate, instances, pc>>
conVars == <<allItems, currentItem, otherItem, conflicts, cpc>>
rolVars == <<tasks, now, rolled, rpc>>
tlVars == <<snapshot, calendarItems, tpc>>
wlVars == <<items, calendarDays, workload, workloadColor, wpc>>
colVars == <<project, hash, charIndex, projectColor, gpc>>
viewVars == <<calendarEvents, monthWindow, yearWindow, monthResult, yearResult, vpc>>
storeVars == <<dbTasks, dbGoals, storeTasks, storeGoals, linkedItems, toggledId, newCompletedState, linkedGoals, history, spc>>

\* What a call of one function leaves alone: the variables of the others.
outsideExpand == <<conVars, rolVars, tlVars, wlVars, colVars, viewVars, storeVars>>
outsideConflicts == <<expVars, rolVars, tlVars, wlVars, colVars, viewVars, storeVars>>
outsideRollover == <<expVars, conVars, tlVars, wlVars, colVars, viewVars, storeVars>>
outsideTimeline == <<expVars, conVars, rolVars, wlVars, colVars, viewVars, storeVars>>
outsideWorkload == <<expVars, conVars, rolVars, tlVars, colVars, viewVars, storeVars>>
outsideColor == <<expVars, conVars, rolVars, tlVars, wlVars, viewVars, storeVars>>
outsideViews == <<expVars, conVars, rolVars, tlVars, wlVars, colVars, storeVars>>
outsideStore == <<expVars, conVars, rolVars, tlVars, wlVars, colVars, viewVars>>

(***************************************************************************)
(* Bounds of the model.                                                    *)
(***************************************************************************)
TicksPerDay == 2
MaxInterval == 2
MaxDuration == 1
MaxTime == 3
MaxLength == 3
MaxCalls == 3

(***************************************************************************)
(* The calendar (what Date.getDate, getMonth, getDay and date-fns' addDays *)
(* and addMonths compute).                                                 *)
(***************************************************************************)
IsLeapYear(y) == (y % 4 = 0 /\ y % 100 # 0) \/ y % 400 = 0

\* m is a JavaScript month, 0 = January.
DaysInMonth(y, m) ==
    IF m = 1 THEN (IF IsLeapYear(y) THEN 29 ELSE 28)
    ELSE IF m \in {3, 5, 8, 10} THEN 30 ELSE 31

\* Months are indexed from December 2023 (index 0) to December 2024 (12).
MonthIndices == 0..12
YearOfIndex(mi) == (2023 * 12 + 11 + mi) \div 12
MonthOfIndex(mi) == (2023 * 12 + 11 + mi) % 12

\* The day number of the first day of month mi.
MonthStart[mi \in 0..13] ==
    IF mi = 0 THEN 0
    ELSE MonthStart[mi - 1] + DaysInMonth(YearOfIndex(mi - 1), MonthOfIndex(mi - 1))

FirstDay == MonthStart[0]
LastDay == MonthStart[13] - 1

DayOf(t) == t \div TicksPerDay
TickOf(t) == t % TicksPerDay
At(day, tick) == day * TicksPerDay + tick

IndexOfDay(day) ==
    CHOOSE mi \in MonthIndices : MonthStart[mi] <= day /\ day < MonthStart[mi + 1]

\* The day number of the calendar date y-(m+1)-d.
DayNumber(y, m, d) == MonthStart[(y * 12 + m) - (2023 * 12 + 11)] + d - 1

getDate(t) == DayOf(t) - MonthStart[IndexOfDay(DayOf(t))] + 1
getMonth(t) == MonthOfIndex(IndexOfDay(DayOf(t)))
getFullYear(t) == YearOfIndex(IndexOfDay(DayOf(t)))
\* 0 = Sunday; day 0 is a Friday.
getDay(t) == (DayOf(t) + 5) % 7

\* format(date, 'yyyy-MM-dd'): the calendar date, without the time of day.
format(t) == <<getFullYear(t), getMonth(t) + 1, getDate(t)>>

addDays(t, amount) == t + amount * TicksPerDay

\* date-fns addMonths: the same day of the target month, or that month's
\* last day when it is shorter; the time of day is kept.
addMonths(t, amount) ==
    LET mi == IndexOfDay(DayOf(t)) + amount
        dim == DaysInMonth(YearOfIndex(mi), MonthOfIndex(mi))
        dom == getDate(t)
    IN  At(MonthStart[mi] + (IF dom >= dim THEN dim ELSE dom) - 1, TickOf(t))

\* Whether the calendar of the model holds the date-fns result.
InCalendar(t) == DayOf(t) >= FirstDay /\ DayOf(t) <= LastDay

(***************************************************************************)
(* Events and recurrence rules (shared/schema.ts).  An event's recurrence  *)
(* is <<>> when the field is absent and <<rule>> otherwise.  In a rule,    *)
(* interval 0 also stands for an absent interval, dayOfMonth 0 and         *)
(* monthOfYear 0 for an absent field, daysOfWeek {} for an absent or empty *)
(* array (the expander cannot tell these apart); endDate is {} or {date}.  *)
(* An id is a sequence: the source's name followed by the dates appended   *)
(* to it, so that <<"a", <<2024, 1, 3>>>> is the string "a-2024-01-03".    *)
(***************************************************************************)
Rule(type, interval, daysOfWeek, dayOfMonth, monthOfYear, endDate) ==
    [type |-> type, interval |-> interval, daysOfWeek |-> daysOfWeek,
     dayOfMonth |-> dayOfMonth, monthOfYear |-> monthOfYear, endDate |-> endDate]

CalendarEvent(name, startDate, duration, recurrence) ==
    [id |-> <<name>>, title |-> name, startDate |-> startDate,
     endDate |-> startDate + duration, recurrence |-> recurrence]

(***************************************************************************)
(* generateEventInstances(events, viewStart, viewEnd).                     *)
(***************************************************************************)
\* Mutant: only a missing rule counts as non-recurring.
IsNonRecurringAbsentOnly(event) == event.recurrence = <<>>

\* !event.recurrence || event.recurrence.type === 'none'
IsNonRecurring(event) ==
    IF event.recurrence = <<>> THEN TRUE ELSE event.recurrence[1].type = "none"

\* Mutant: the upper end of the window is not tested.
InViewNoUpperBound(t) == t >= viewStart

\* event.startDate >= viewStart && event.startDate <= viewEnd
InView(t) == t >= viewStart /\ t <= viewEnd

\* Mutant: a weekly rule matches every day of the week.
shouldCreateAnyWeekday(rule, t) ==
    CASE rule.type = "daily" -> TRUE
      [] rule.type = "weekly" -> TRUE
      [] rule.type = "monthly" -> rule.dayOfMonth = getDate(t)
      [] rule.type = "yearly" ->
            rule.monthOfYear = getMonth(t) + 1 /\ rule.dayOfMonth = getDate(t)
      [] OTHER -> FALSE

\* Mutant: a monthly rule matches wherever the cursor lands, so that a
\* cursor clamped to a shorter month yields an occurrence.
shouldCreateClampedMonthly(rule, t) ==
    CASE rule.type = "daily" -> TRUE
      [] rule.type = "weekly" -> getDay(t) \in rule.daysOfWeek
      [] rule.type = "monthly" -> TRUE
      [] rule.type = "yearly" ->
            rule.monthOfYear = getMonth(t) + 1 /\ rule.dayOfMonth = getDate(t)
      [] OTHER -> FALSE

\* The first switch of the loop body: does the cursor match the rule?
shouldCreate(rule, t) ==
    CASE rule.type = "daily" -> TRUE
      [] rule.type = "weekly" -> getDay(t) \in rule.daysOfWeek
      [] rule.type = "monthly" -> rule.dayOfMonth = getDate(t)
      [] rule.type = "yearly" ->
            rule.monthOfYear = getMonth(t) + 1 /\ rule.dayOfMonth = getDate(t)
      [] OTHER -> FALSE

\* rule.interval || 1
IntervalOf(rule) == IF rule.interval = 0 THEN 1 ELSE rule.interval

\* Mutant: the end of the occurrence is not shifted.
InstanceKeepsEnd(event, t) ==
    [event EXCEPT !.id = Append(event.id, format(t)), !.startDate = t]

\* Mutant: the occurrence keeps the id of its source.
InstanceSourceId(event, t) ==
    [event EXCEPT !.startDate = t,
                  !.endDate = t + (event.endDate - event.startDate)]

\* The occurrence pushed for the cursor t: the event with a derived id and
\* shifted start and end.
Instance(event, t) ==
    [event EXCEPT !.id = Append(event.id, format(t)),
                  !.startDate = t,
                  !.endDate = t + (event.endDate - event.startDate)]

\* The safety break after the second switch: weekly rules with interval > 1
\* advance 7 * (interval - 1) further days, one day at a time.
WeeklySkip(rule, t) ==
    IF rule.type = "weekly" /\ IntervalOf(rule) > 1
    THEN addDays(t, 7 * (IntervalOf(rule) - 1))
    ELSE t

\* Mutant: a daily rule advances one day whatever its interval.
NextDateEveryDay(rule, t) ==
    WeeklySkip(rule,
        CASE rule.type = "daily" -> addDays(t, 1)
          [] rule.type = "weekly" -> addDays(t, 1)
          [] rule.type = "monthly" -> addMonths(t, IntervalOf(rule))
          [] OTHER -> addDays(viewEnd, 1))

\* The second switch of the loop body, for the kinds whose case returns.
NextDate(rule, t) ==
    WeeklySkip(rule,
        CASE rule.type = "daily" -> addDays(t, IntervalOf(rule))
          [] rule.type = "weekly" -> addDays(t, 1)
          [] rule.type = "monthly" -> addMonths(t, IntervalOf(rule))
          [] OTHER -> addDays(viewEnd, 1))

\* case 'yearly' calls addYears, which the module does not import: the call
\* raises a ReferenceError.
AdvanceRaises(rule) == rule.type = "yearly"

\* The model follows a cursor only inside its calendar; only the cursor of a
\* rule with a negative interval, which moves backwards, ever leaves it.
CanFollow(rule, t) ==
    IF rule.type = "monthly"
    THEN IndexOfDay(DayOf(t)) + IntervalOf(rule) \in MonthIndices
    ELSE InCalendar(NextDate(rule, t))

\* forEach callback, non-recurring branch.
ForEachNonRecurring ==
    /\ pc = "forEach"
    /\ idx <= Len(events)
    /\ IsNonRecurring(events[idx])
    /\ instances' = IF InView(events[idx].startDate)
                    THEN Append(instances, events[idx])
                    ELSE instances
    /\ idx' = idx + 1
    /\ UNCHANGED <<events, viewStart, viewEnd, currentDate, pc>>
    /\ UNCHANGED outsideExpand

\* forEach callback, recurring branch: the cursor starts at the event's start.
ForEachRecurring ==
    /\ pc = "forEach"
    /\ idx <= Len(events)
    /\ ~IsNonRecurring(events[idx])
    /\ currentDate' = events[idx].startDate
    /\ pc' = "while"
    /\ UNCHANGED <<events, viewStart, viewEnd, idx, instances>>
    /\ UNCHANGED outsideExpand

\* Mutant: the cursor is the event's own startDate object, moved in place.
InputAfterAdvanceInPlace(list, k, date) == [list EXCEPT ![k].startDate = date]

\* The input after the cursor moves.  The cursor starts as the event's own
\* startDate object, but addDays and addMonths return a new Date and the
\* cursor is reassigned: the event keeps its startDate.
InputAfterAdvance(list, k, date) == list

\* One iteration of while (currentDate <= viewEnd).
WhileIteration ==
    /\ pc = "while"
    /\ currentDate <= viewEnd
    /\ LET event == events[idx]
           rule == event.recurrence[1]
       IN  /\ instances' =
                 IF currentDate >= viewStart /\ shouldCreate(rule, currentDate)
                 THEN Append(instances, Instance(event, currentDate))
                 ELSE instances
           /\ IF AdvanceRaises(rule)
              THEN pc' = "threw" /\ UNCHANGED <<currentDate, events>>
              ELSE /\ CanFollow(rule, currentDate)
                   /\ currentDate' = NextDate(rule, currentDate)
                   /\ events' = InputAfterAdvance(events, idx, currentDate')
                   /\ UNCHANGED pc
    /\ UNCHANGED <<viewStart, viewEnd, idx>>
    /\ UNCHANGED outsideExpand

\* The loop condition fails: the callback returns, forEach moves on.
WhileExit ==
    /\ pc = "while"
    /\ ~(currentDate <= viewEnd)
    /\ idx' = idx + 1
    /\ pc' = "forEach"
    /\ UNCHANGED <<events, viewStart, viewEnd, currentDate, instances>>
    /\ UNCHANGED outsideExpand

\* return instances
Return ==
    /\ pc = "forEach"
    /\ idx > Len(events)
    /\ pc' = "returned"
    /\ UNCHANGED <<events, viewStart, viewEnd, idx, currentDate, instances>>
    /\ UNCHANGED outsideExpand

(***************************************************************************)
(* The inputs of the expander.                                             *)
(***************************************************************************)
Jan(d) == DayNumber(2024, 0, d)
Mar(d) == DayNumber(2024, 2, d)
LastTick == TicksPerDay - 1

AnchorDays == {Jan(1), Jan(4), Jan(31)}
DaySets == {{}, {1, 3, 5}, {0, 4}}
MonthDays == {0, 4, 31}
EndDates == {{}, {At(Jan(5), 0)}}

\* A rule the recurrence editor saved with exception dates: the dates, as
\* format(date, 'yyyy-MM-dd') writes them.
WithExceptions(rule, dates) ==
    [field \in DOMAIN rule \cup {"exceptions"} |->
        IF field = "exceptions" THEN dates ELSE rule[field]]

Rules ==
    {Rule("none", 1, {}, 0, 0, {}), Rule("custom", 1, {}, 0, 0, {})}
    \cup {Rule("daily", i, {}, 0, 0, e) : i \in -1..MaxInterval, e \in EndDates}
    \cup {Rule("weekly", i, D, 0, 0, e) :
             i \in 0..MaxInterval, D \in DaySets, e \in EndDates}
    \cup {Rule("monthly", i, {}, d, 0, {}) : i \in -1..MaxInterval, d \in MonthDays}
    \cup {Rule("yearly", 1, {}, d, 1, {}) : d \in {1, 4}}
    \cup {WithExceptions(Rule("daily", 1, {}, 0, 0, {}), {format(At(Jan(3), 0))})}

Recurrences == {<<>>} \cup {<<r>> : r \in Rules}

EventPool(name) ==
    {CalendarEvent(name, At(day, tick), duration, rec) :
        day \in AnchorDays, tick \in 0..LastTick,
        duration \in 0..MaxDuration, rec \in Recurrences}

\* The events of the two-event lists.
Companions(name) ==
    {CalendarEvent(name, At(Jan(4), 0), duration, rec) :
        duration \in 0..MaxDuration,
        rec \in {<<>>, <<Rule("daily", MaxInterval, {}, 0, 0, {})>>,
                 <<Rule("weekly", 1, {1, 3, 5}, 0, 0, {})>>,
                 <<Rule("yearly", 1, {}, 1, 1, {})>>,
                 <<Rule("custom", 1, {}, 0, 0, {})>>}}

EventLists ==
    {<<>>} \cup {<<e>> : e \in EventPool("a")}
    \cup {<<e, f>> : e \in Companions("b"), f \in Companions("c")}

ViewStarts == {At(Jan(1), 0), At(Jan(3), LastTick)}
ViewEnds == {At(Jan(7), LastTick), At(Jan(10), 0), At(Mar(1), LastTick)}

NoItem == [id |-> <<"none">>, startTime |-> {}, endTime |-> {}]

\* The variables of a function that is not called.
StoreIdle ==
    /\ dbTasks = <<>>
    /\ dbGoals = <<>>
    /\ storeTasks = <<>>
    /\ storeGoals = <<>>
    /\ linkedItems = <<>>
    /\ toggledId = ""
    /\ newCompletedState = FALSE
    /\ linkedGoals = <<>>
    /\ history = <<>>
    /\ spc = "idle"

ViewsIdle ==
    /\ calendarEvents = <<>>
    /\ monthWindow = <<0, 0>>
    /\ yearWindow = <<0, 0>>
    /\ monthResult = [status |-> "none", instances |-> <<>>]
    /\ yearResult = [status |-> "none", instances |-> <<>>]
    /\ vpc = {"idle"}

ColorIdle ==
    /\ project = {}
    /\ hash = 0
    /\ charIndex = 0
    /\ projectColor = ""
    /\ gpc = "idle"

ExpandIdle ==
    /\ events = <<>>
    /\ viewStart = 0
    /\ viewEnd = 0
    /\ idx = 1
    /\ currentDate = 0
    /\ instances = <<>>
    /\ pc = "idle"

RolloverIdle ==
    /\ tasks = <<>>
    /\ now = 0
    /\ rolled = <<>>
    /\ rpc = "idle"

NoSnapshot ==
    [tasks |-> <<>>, events |-> <<>>, goals |-> <<>>, reminders |-> <<>>,
     timeBlocks |-> <<>>]

TimelineIdle ==
    /\ snapshot = NoSnapshot
    /\ calendarItems = <<>>
    /\ tpc = "idle"

WorkloadIdle ==
    /\ items = <<>>
    /\ calendarDays = {}
    /\ workload = <<>>
    /\ workloadColor = <<>>
    /\ wpc = "idle"

ConflictIdle ==
    /\ allItems = <<>>
    /\ currentItem = NoItem
    /\ otherItem = NoItem
    /\ conflicts = <<>>
    /\ cpc = "idle"

ExpandInit ==
    /\ events \in EventLists
    /\ viewStart \in ViewStarts
    /\ viewEnd \in ViewEnds
    /\ idx = 1
    /\ currentDate = 0
    /\ instances = <<>>
    /\ pc = "forEach"
    /\ ConflictIdle
    /\ RolloverIdle
    /\ TimelineIdle
    /\ WorkloadIdle
    /\ ColorIdle
    /\ ViewsIdle
    /\ StoreIdle

ExpandNext ==
    \/ ForEachNonRecurring
    \/ ForEachRecurring
    \/ WhileIteration
    \/ WhileExit
    \/ Return

Spec == ExpandInit /\ [][ExpandNext]_vars

(***************************************************************************)
(* detectConflicts(allItems, currentItem).  startTime and endTime are {}   *)
(* when the field is missing and {timestamp} otherwise.                    *)
(***************************************************************************)
CalendarItem(name, startTime, endTime) ==
    [id |-> <<name>>, startTime |-> startTime, endTime |-> endTime]

\* Mutant: touching intervals overlap (the inclusive comparison).
areIntervalsOverlappingInclusive(leftStart, leftEnd, rightStart, rightEnd) ==
    leftStart <= rightEnd /\ rightStart <= leftEnd

\* Mutant: the comparison is strict on one side only.
areIntervalsOverlappingHalfStrict(leftStart, leftEnd, rightStart, rightEnd) ==
    leftStart < rightEnd /\ rightStart <= leftEnd

\* date-fns areIntervalsOverlapping without the inclusive option, on
\* intervals whose start is not after their end.
areIntervalsOverlapping(leftStart, leftEnd, rightStart, rightEnd) ==
    leftStart < rightEnd /\ rightStart < leftEnd

\* The callback of allItems.filter, for the candidate of the call.
ConflictsWith(candidate, item) ==
    IF item.id = candidate.id THEN FALSE
    ELSE IF item.endTime = {} THEN FALSE
    ELSE \E cs \in candidate.startTime, ce \in candidate.endTime,
            s \in item.startTime, e \in item.endTime :
                areIntervalsOverlapping(cs, ce, s, e)

ConflictsWithCurrent(item) == ConflictsWith(currentItem, item)

\* detectConflicts(all, candidate) as a function of its arguments.
detectConflicts(all, candidate) ==
    IF candidate.startTime = {} \/ candidate.endTime = {}
    THEN <<>>
    ELSE SelectSeq(all, LAMBDA item : ConflictsWith(candidate, item))

DetectConflicts ==
    /\ cpc = "called"
    /\ conflicts' =
          IF currentItem.startTime = {} \/ currentItem.endTime = {}
          THEN <<>>
          ELSE SelectSeq(allItems, ConflictsWithCurrent)
    /\ cpc' = "returned"
    /\ UNCHANGED <<allItems, currentItem, otherItem>>
    /\ UNCHANGED outsideConflicts

\* A second call, with one of the reported items as the candidate: the first
\* candidate is kept in otherItem.
DetectReverse ==
    /\ cpc = "returned"
    /\ \E j \in 1..Len(conflicts) :
          /\ currentItem' = conflicts[j]
          /\ conflicts' = detectConflicts(allItems, conflicts[j])
    /\ otherItem' = currentItem
    /\ cpc' = "reversed"
    /\ UNCHANGED allItems
    /\ UNCHANGED outsideConflicts

Times == 0..MaxTime
OptionalTimes == {{}} \cup {{t} : t \in Times}

\* Intervals are given with start <= end: what date-fns does with an
\* inverted interval depends on its version and is not modelled.
WellFormed(item) == \A s \in item.startTime, e \in item.endTime : s <= e

TimelineItems ==
    {i \in {CalendarItem(name, {s}, e) :
                name \in {"x", "y"}, s \in Times, e \in OptionalTimes} :
        WellFormed(i)}

Candidates ==
    {c \in {CalendarItem(name, s, e) :
                name \in {"x", "new-event"},
                s \in OptionalTimes, e \in OptionalTimes} :
        WellFormed(c)}

ConflictInit ==
    /\ allItems \in {<<>>} \cup {<<i>> : i \in TimelineItems}
                           \cup {<<i, j>> : i \in TimelineItems, j \in TimelineItems}
    /\ currentItem \in Candidates
    /\ otherItem = NoItem
    /\ conflicts = <<>>
    /\ cpc = "called"
    /\ ExpandIdle
    /\ RolloverIdle
    /\ TimelineIdle
    /\ WorkloadIdle
    /\ ColorIdle
    /\ ViewsIdle
    /\ StoreIdle

ConflictNext == DetectConflicts \/ DetectReverse

ConflictSpec == ConflictInit /\ [][ConflictNext]_vars

(***************************************************************************)
(* autoRolloverTasks(tasks).  A task's dueDate is {} when the field is     *)
(* missing and {value} otherwise; a value is a Date or the ISO string that *)
(* toISOString writes, each standing for an instant.  isAutoRolled is {}   *)
(* until the rollover sets it.  now is what new Date() returns.            *)
(***************************************************************************)
Task(name, status, completed, dueDate) ==
    [id |-> <<name>>, status |-> status, completed |-> completed,
     dueDate |-> dueDate, isAutoRolled |-> {}]

DateValue(t) == [repr |-> "Date", time |-> t]

\* date.toISOString(): the text of the instant.
toISOString(t) == [repr |-> "ISO string", time |-> t]

\* new Date(value): the instant of a Date or of an ISO string.
newDate(value) == value.time

\* date.setHours(0, 0, 0, 0): local midnight of the date's day.
startOfDay(t) == At(DayOf(t), 0)

\* Mutant: only tasks still to do are looked at.
NeedsRolloverTodoOnly(task, today) ==
    IF task.status = "todo" /\ task.dueDate # {}
    THEN \E d \in task.dueDate : startOfDay(newDate(d)) < today
    ELSE FALSE

\* Mutant: tasks due today are rolled as well.
NeedsRolloverDueToday(task, today) ==
    IF task.status # "completed" /\ task.dueDate # {}
    THEN \E d \in task.dueDate : startOfDay(newDate(d)) <= today
    ELSE FALSE

\* task.status !== 'completed' && task.dueDate, then dueDate < today.
NeedsRollover(task, today) ==
    IF task.status # "completed" /\ task.dueDate # {}
    THEN \E d \in task.dueDate : startOfDay(newDate(d)) < today
    ELSE FALSE

\* Mutant: a rolled task goes back to 'todo'.
RolloverTaskResetsStatus(task, today) ==
    IF NeedsRollover(task, today)
    THEN [task EXCEPT !.dueDate = {toISOString(today)}, !.isAutoRolled = {TRUE},
                      !.status = "todo"]
    ELSE task

\* The callback of tasks.map.
RolloverTask(task, today) ==
    IF NeedsRollover(task, today)
    THEN [task EXCEPT !.dueDate = {toISOString(today)}, !.isAutoRolled = {TRUE}]
    ELSE task

autoRolloverTasks(list, current) ==
    [k \in 1..Len(list) |-> RolloverTask(list[k], startOfDay(current))]

AutoRollover ==
    /\ rpc = "called"
    /\ rolled' = autoRolloverTasks(tasks, now)
    /\ rpc' = "returned"
    /\ UNCHANGED <<tasks, now>>
    /\ UNCHANGED outsideRollover

\* A second call on the same day, on the list the first call returned.
AutoRolloverAgain ==
    /\ rpc = "returned"
    /\ rolled' = autoRolloverTasks(rolled, now)
    /\ rpc' = "reapplied"
    /\ UNCHANGED <<tasks, now>>
    /\ UNCHANGED outsideRollover

\* The tasks given to the rollover: every status of the task schema, and
\* 'completed', which other versions of the task type use.
Statuses == {"todo", "in-progress", "done", "backlog", "completed"}
DueDates ==
    {{}} \cup {{DateValue(t)} :
                  t \in {At(Jan(1), 0), At(Jan(4), LastTick), At(Jan(5), 0),
                         At(Jan(5), LastTick), At(Jan(6), 0)}}

TaskPool(name) ==
    {Task(name, status, completed, due) :
        status \in Statuses, completed \in BOOLEAN, due \in DueDates}

RolloverInit ==
    /\ tasks \in {<<>>} \cup {<<t>> : t \in TaskPool("t1")}
                        \cup {<<t, u>> : t \in TaskPool("t1"), u \in TaskPool("t2")}
    /\ now \in {At(Jan(5), 0), At(Jan(5), LastTick)}
    /\ rolled = <<>>
    /\ rpc = "called"
    /\ ExpandIdle
    /\ ConflictIdle
    /\ TimelineIdle
    /\ WorkloadIdle
    /\ ColorIdle
    /\ ViewsIdle
    /\ StoreIdle

RolloverNext == AutoRollover \/ AutoRolloverAgain

RolloverSpec == RolloverInit /\ [][RolloverNext]_vars

(***************************************************************************)
(* convertToCalendarItems(tasks, events, goals, reminders, timeBlocks).    *)
(* snapshot holds the five lists.  A goal's deadline is {} or {instant}.   *)
(***************************************************************************)
Goal(name, deadline) == [id |-> <<name>>, deadline |-> deadline]
Reminder(name, remindAt) == [id |-> <<name>>, remindAt |-> remindAt]
TimeBlock(name, startTime, endTime) ==
    [id |-> <<name>>, startTime |-> startTime, endTime |-> endTime]

\* An item of the timeline.  No branch of the normalizer sets duration.
TimelineItem(id, type, startTime, endTime) ==
    [id |-> id, type |-> type, startTime |-> startTime, endTime |-> endTime,
     duration |-> {}]

\* The items pushed for each list, in the list's order.
RECURSIVE TaskItems(_)
TaskItems(list) ==
    IF list = <<>> THEN <<>>
    ELSE LET task == Head(list)
         IN  (IF task.dueDate # {}
              THEN <<TimelineItem(task.id, "task",
                                  {newDate(d) : d \in task.dueDate}, {})>>
              ELSE <<>>) \o TaskItems(Tail(list))

\* Mutant: an event's item starts where the event ends.
EventItemsAtEnd(list) ==
    [k \in 1..Len(list) |->
        TimelineItem(list[k].id, "event", {list[k].endDate}, {list[k].endDate})]

EventItems(list) ==
    [k \in 1..Len(list) |->
        TimelineItem(list[k].id, "event", {list[k].startDate}, {list[k].endDate})]

RECURSIVE GoalItems(_)
GoalItems(list) ==
    IF list = <<>> THEN <<>>
    ELSE LET goal == Head(list)
         IN  (IF goal.deadline # {}
              THEN <<TimelineItem(goal.id, "goal", goal.deadline, {})>>
              ELSE <<>>) \o GoalItems(Tail(list))

ReminderItems(list) ==
    [k \in 1..Len(list) |->
        TimelineItem(list[k].id, "reminder", {list[k].remindAt}, {})]

TimeBlockItems(list) ==
    [k \in 1..Len(list) |->
        TimelineItem(list[k].id, "timeblock", {list[k].startTime}, {list[k].endTime})]

\* a.startTime.getTime() of an item.
StartOf(item) == CHOOSE t \in item.startTime : TRUE

\* Mutant: an item goes before the items that start when it does.
InsertBeforeEqual(sorted, item) ==
    LET before == SelectSeq(sorted, LAMBDA x : StartOf(x) < StartOf(item))
        after == SelectSeq(sorted, LAMBDA x : StartOf(x) >= StartOf(item))
    IN  before \o <<item>> \o after

\* Array.prototype.sort with the comparator a.startTime - b.startTime: a
\* stable sort, built by inserting each item after the items that do not
\* start later.
InsertByStart(sorted, item) ==
    LET before == SelectSeq(sorted, LAMBDA x : StartOf(x) <= StartOf(item))
        after == SelectSeq(sorted, LAMBDA x : StartOf(x) > StartOf(item))
    IN  before \o <<item>> \o after

RECURSIVE SortByStart(_)
SortByStart(list) ==
    IF list = <<>> THEN <<>>
    ELSE InsertByStart(SortByStart(SubSeq(list, 1, Len(list) - 1)), list[Len(list)])

convertToCalendarItems(s) ==
    SortByStart(TaskItems(s.tasks) \o EventItems(s.events) \o GoalItems(s.goals)
                \o ReminderItems(s.reminders) \o TimeBlockItems(s.timeBlocks))

ConvertToCalendarItems ==
    /\ tpc = "called"
    /\ calendarItems' = convertToCalendarItems(snapshot)
    /\ tpc' = "returned"
    /\ UNCHANGED snapshot
    /\ UNCHANGED outsideTimeline

\* The snapshots given to the normalizer: few instants, so that items tie.
Instants == {At(Jan(5), 0), At(Jan(5), LastTick)}

UpToTwo(first, second) ==
    {<<>>} \cup {<<x>> : x \in first} \cup {<<x, y>> : x \in first, y \in second}

TimelineTasks(name) ==
    {Task(name, "todo", FALSE, due) :
        due \in {{}} \cup {{DateValue(t)} : t \in Instants}}
TimelineEvents(name) ==
    {CalendarEvent(name, t, MaxDuration, <<>>) : t \in Instants}
TimelineGoals(name) == {Goal(name, d) : d \in {{}} \cup {{t} : t \in Instants}}
TimelineReminders(name) == {Reminder(name, t) : t \in Instants}
TimelineBlocks(name) == {TimeBlock(name, t, t + MaxDuration) : t \in Instants}

Snapshots ==
    [tasks : UpToTwo(TimelineTasks("t1"), TimelineTasks("t2")),
     events : UpToTwo(TimelineEvents("e1"), TimelineEvents("e2")),
     goals : UpToTwo(TimelineGoals("g1"), {}),
     reminders : UpToTwo(TimelineReminders("r1"), {}),
     timeBlocks : UpToTwo(TimelineBlocks("b1"), {})]

TimelineInit ==
    /\ snapshot \in Snapshots
    /\ calendarItems = <<>>
    /\ tpc = "called"
    /\ ExpandIdle
    /\ ConflictIdle
    /\ RolloverIdle
    /\ WorkloadIdle
    /\ ColorIdle
    /\ ViewsIdle
    /\ StoreIdle

TimelineNext == ConvertToCalendarItems

TimelineSpec == TimelineInit /\ [][TimelineNext]_vars

(***************************************************************************)
(* calculateWorkload and getWorkloadColor, as the month grid applies them  *)
(* to each of its days.  An item's duration, in minutes, is {} or {n}.     *)
(***************************************************************************)
WorkItem(name, startTime, duration) ==
    [id |-> <<name>>, startTime |-> {startTime}, duration |-> duration]

isSameDay(left, right) == DayOf(left) = DayOf(right)

\* item.duration || 30: an absent duration and a duration of 0 are falsy.
DurationOrDefault(item) ==
    IF item.duration = {} \/ item.duration = {0} THEN 30
    ELSE CHOOSE n \in item.duration : TRUE

\* dayItems.reduce((total, item) => total + (item.duration || 30), 0)
RECURSIVE reduceMinutes(_)
reduceMinutes(dayItems) ==
    IF dayItems = <<>> THEN 0
    ELSE reduceMinutes(SubSeq(dayItems, 1, Len(dayItems) - 1))
             + DurationOrDefault(dayItems[Len(dayItems)])

calculateWorkload(list, date) ==
    LET dayItems == SelectSeq(list, LAMBDA item : isSameDay(StartOf(item), date))
    IN  reduceMinutes(dayItems)

\* Mutant: the upper boundary of a bucket belongs to the next bucket.
getWorkloadColorExclusive(minutes) ==
    IF minutes = 0 THEN "bg-gray-100"
    ELSE IF minutes < 120 THEN "bg-green-200"
    ELSE IF minutes < 240 THEN "bg-yellow-200"
    ELSE IF minutes < 360 THEN "bg-orange-200"
    ELSE "bg-red-200"

getWorkloadColor(minutes) ==
    IF minutes = 0 THEN "bg-gray-100"
    ELSE IF minutes <= 120 THEN "bg-green-200"
    ELSE IF minutes <= 240 THEN "bg-yellow-200"
    ELSE IF minutes <= 360 THEN "bg-orange-200"
    ELSE "bg-red-200"

\* The grid computes the workload of each of its days ...
GetDayWorkload ==
    /\ wpc = "called"
    /\ workload' = [day \in calendarDays |-> calculateWorkload(items, day)]
    /\ wpc' = "summed"
    /\ UNCHANGED <<items, calendarDays, workloadColor>>
    /\ UNCHANGED outsideWorkload

\* ... and the class of each workload.
GetWorkloadColor ==
    /\ wpc = "summed"
    /\ workloadColor' = [day \in calendarDays |-> getWorkloadColor(workload[day])]
    /\ wpc' = "colored"
    /\ UNCHANGED <<items, calendarDays, workload>>
    /\ UNCHANGED outsideWorkload

\* The items of the grid: minutes on both sides of each bucket boundary.
Minutes == {{}, {0}, {1}, {15}, {90}, {120}, {121}, {240}, {241}, {360}, {361}}
WorkStarts == {At(Jan(5), 0), At(Jan(5), LastTick), At(Jan(6), 0)}
WorkItems(name) ==
    {WorkItem(name, start, minutes) : start \in WorkStarts, minutes \in Minutes}

WorkloadInit ==
    /\ items \in UpToTwo(WorkItems("w1"), WorkItems("w2"))
    /\ calendarDays = {At(Jan(5), 0), At(Jan(6), 0)}
    /\ workload = <<>>
    /\ workloadColor = <<>>
    /\ wpc = "called"
    /\ ExpandIdle
    /\ ConflictIdle
    /\ RolloverIdle
    /\ TimelineIdle
    /\ ColorIdle
    /\ ViewsIdle
    /\ StoreIdle

WorkloadNext == GetDayWorkload \/ GetWorkloadColor

WorkloadSpec == WorkloadInit /\ [][WorkloadNext]_vars

(***************************************************************************)
(* getProjectColor(project).  project is {} when undefined and {string}    *)
(* otherwise, a string being the sequence of its UTF-16 code units.  The   *)
(* hash is a signed 32-bit integer; the arithmetic on it is done on its    *)
(* 16-bit halves, so that no intermediate value leaves 32 bits.            *)
(***************************************************************************)
High(a) == a \div 65536
Low(a) == a % 65536
Wrap16(x) == ((x + 32768) % 65536) - 32768

\* ToInt32 of high * 2^16 + low.
Int32(high, low) == Wrap16(high + (low \div 65536)) * 65536 + (low % 65536)

\* a << 5
ShiftLeft5(a) == Int32(High(a) * 32, Low(a) * 32)

\* Mutant: (a << 5) + a, the multiplier 33.
hashStepAdding(a, code) ==
    LET shifted == ShiftLeft5(a)
    IN  Int32(High(shifted) + High(a), Low(shifted) + Low(a) + code)

\* a = ((a << 5) - a) + b.charCodeAt(0); return a & a
hashStep(a, code) ==
    LET shifted == ShiftLeft5(a)
    IN  Int32(High(shifted) - High(a), Low(shifted) - Low(a) + code)

\* Math.abs(value) % n; Math.abs of the least 32-bit integer is 2^31, which
\* a JavaScript number holds.
AbsMod(value, n) ==
    IF value >= 0 THEN value % n ELSE (((-(value + 1)) % n) + 1) % n

colors ==
    <<"bg-blue-500", "bg-green-500", "bg-purple-500", "bg-red-500",
      "bg-yellow-500", "bg-indigo-500", "bg-pink-500", "bg-teal-500">>

\* if (!project) return 'bg-gray-500'
ReturnDefaultColor ==
    /\ gpc = "called"
    /\ \A string \in project : string = <<>>
    /\ projectColor' = "bg-gray-500"
    /\ gpc' = "returned"
    /\ UNCHANGED <<project, hash, charIndex>>
    /\ UNCHANGED outsideColor

\* One step of project.split('').reduce(..., 0).
ReduceStep ==
    /\ gpc = "called"
    /\ \E string \in project :
          /\ charIndex < Len(string)
          /\ hash' = hashStep(hash, string[charIndex + 1])
    /\ charIndex' = charIndex + 1
    /\ UNCHANGED <<project, projectColor, gpc>>
    /\ UNCHANGED outsideColor

\* return colors[Math.abs(hash) % colors.length]
ReturnColor ==
    /\ gpc = "called"
    /\ \E string \in project : string # <<>> /\ charIndex = Len(string)
    /\ projectColor' = colors[AbsMod(hash, Len(colors)) + 1]
    /\ gpc' = "returned"
    /\ UNCHANGED <<project, hash, charIndex>>
    /\ UNCHANGED outsideColor

\* The project names: every string of up to MaxLength of three code units
\* ('a', 'z' and the largest one), and names long enough for the hash to
\* wrap: "GydZG_", whose hash is the least 32-bit integer, "zzzzzzz",
\* "zzzzzzzz", "Work" and "Health" (a negative hash, colour 4).
CodeUnits == {97, 122, 65535}

ShortStrings ==
    UNION {[1..n -> CodeUnits] : n \in 0..MaxLength}

LongStrings ==
    {<<71, 121, 100, 90, 71, 95>>,
     <<122, 122, 122, 122, 122, 122, 122>>,
     <<122, 122, 122, 122, 122, 122, 122, 122>>,
     <<87, 111, 114, 107>>,
     <<72, 101, 97, 108, 116, 104>>}

ColorInit ==
    /\ project \in {{}} \cup {{string} : string \in ShortStrings \cup LongStrings}
    /\ hash = 0
    /\ charIndex = 0
    /\ projectColor = ""
    /\ gpc = "called"
    /\ ExpandIdle
    /\ ConflictIdle
    /\ RolloverIdle
    /\ TimelineIdle
    /\ WorkloadIdle
    /\ ViewsIdle
    /\ StoreIdle

ColorNext == ReturnDefaultColor \/ ReduceStep \/ ReturnColor

ColorSpec == ColorInit /\ [][ColorNext]_vars

(***************************************************************************)
(* The month view and the year view expand the same events of the store,   *)
(* each over its own window.  A call of generateEventInstances is here one *)
(* value: how it ended ("returned", "threw", or "unbounded" when the       *)
(* cursor moves backwards, away from the end of the window) and the list   *)
(* it built.                                                               *)
(***************************************************************************)
Outcome(status, list) == [status |-> status, instances |-> list]

\* The while loop of a monthly, yearly or other event, from the cursor t
\* (a few iterations at most, followed one by one).  In the default
\* case of the second switch the cursor jumps past the window of the call.
RECURSIVE expandFrom(_, _, _, _)
expandFrom(event, t, windowStart, windowEnd) ==
    IF ~(t <= windowEnd) THEN Outcome("returned", <<>>)
    ELSE LET rule == event.recurrence[1]
             made == IF t >= windowStart /\ shouldCreate(rule, t)
                     THEN <<Instance(event, t)>>
                     ELSE <<>>
             next == IF rule.type \in {"daily", "weekly", "monthly"}
                     THEN NextDate(rule, t)
                     ELSE addDays(windowEnd, 1)
         IN  IF AdvanceRaises(rule) THEN Outcome("threw", made)
             ELSE IF next < t THEN Outcome("unbounded", made)
             ELSE LET rest == expandFrom(event, next, windowStart, windowEnd)
                  IN  Outcome(rest.status, made \o rest.instances)

\* The while loop of a daily or weekly event.  Its cursor moves by the same
\* number of days in every iteration, so the cursors of the loop are the
\* anchor plus the multiples of that stride up to the end of the window.
expandByStride(event, windowStart, windowEnd) ==
    LET rule == event.recurrence[1]
        anchor == event.startDate
        stride == NextDate(rule, anchor) - anchor
        made == IF anchor >= windowStart /\ shouldCreate(rule, anchor)
                THEN <<Instance(event, anchor)>>
                ELSE <<>>
    IN  IF ~(anchor <= windowEnd) THEN Outcome("returned", <<>>)
        ELSE IF stride < 0 THEN Outcome("unbounded", made)
        ELSE LET cursors == [k \in 1..((windowEnd - anchor) \div stride) + 1 |->
                                anchor + (k - 1) * stride]
                 matched == SelectSeq(cursors,
                                LAMBDA t : t >= windowStart /\ shouldCreate(rule, t))
             IN  Outcome("returned",
                         [i \in 1..Len(matched) |-> Instance(event, matched[i])])

\* The callback of events.forEach for one event.
expandEvent(event, windowStart, windowEnd) ==
    IF IsNonRecurring(event)
    THEN Outcome("returned",
                 IF event.startDate >= windowStart /\ event.startDate <= windowEnd
                 THEN <<event>> ELSE <<>>)
    ELSE IF event.recurrence[1].type \in {"daily", "weekly"}
    THEN expandByStride(event, windowStart, windowEnd)
    ELSE expandFrom(event, event.startDate, windowStart, windowEnd)

\* generateEventInstances(events, viewStart, viewEnd): the events in order,
\* up to the first one whose expansion does not return.
RECURSIVE generateEventInstances(_, _, _)
generateEventInstances(list, windowStart, windowEnd) ==
    IF list = <<>> THEN Outcome("returned", <<>>)
    ELSE LET first == expandEvent(Head(list), windowStart, windowEnd)
         IN  IF first.status # "returned" THEN first
             ELSE LET rest == generateEventInstances(Tail(list),
                                                     windowStart, windowEnd)
                  IN  Outcome(rest.status, first.instances \o rest.instances)

MonthViewExpand ==
    /\ "month" \notin vpc
    /\ "idle" \notin vpc
    /\ monthResult' =
          generateEventInstances(calendarEvents, monthWindow[1], monthWindow[2])
    /\ vpc' = vpc \cup {"month"}
    /\ UNCHANGED <<calendarEvents, monthWindow, yearWindow, yearResult>>
    /\ UNCHANGED outsideViews

YearViewExpand ==
    /\ "year" \notin vpc
    /\ "idle" \notin vpc
    /\ yearResult' =
          generateEventInstances(calendarEvents, yearWindow[1], yearWindow[2])
    /\ vpc' = vpc \cup {"year"}
    /\ UNCHANGED <<calendarEvents, monthWindow, yearWindow, monthResult>>
    /\ UNCHANGED outsideViews

\* A window and the windows it contains.
WideWindows == {<<At(Jan(1), 0), At(Jan(10), 0)>>, <<At(Jan(1), 0), At(Mar(1), LastTick)>>}
NarrowWindows ==
    {<<At(Jan(1), 0), At(Jan(3), 0)>>, <<At(Jan(3), LastTick), At(Jan(7), LastTick)>>,
     <<At(Jan(1), 0), At(Jan(7), LastTick)>>}

ViewsInit ==
    /\ calendarEvents \in EventLists
    /\ monthWindow \in NarrowWindows
    /\ yearWindow \in WideWindows
    /\ monthResult = Outcome("none", <<>>)
    /\ yearResult = Outcome("none", <<>>)
    /\ vpc = {}
    /\ ExpandIdle
    /\ ConflictIdle
    /\ RolloverIdle
    /\ TimelineIdle
    /\ WorkloadIdle
    /\ ColorIdle
    /\ StoreIdle

ViewsNext == MonthViewExpand \/ YearViewExpand

ViewsSpec == ViewsInit /\ [][ViewsNext]_vars

(***************************************************************************)
(* The store (client/src/lib/store.ts): toggleTaskCompletion and           *)
(* updateGoalProgress, each await a step.  dbTasks maps a task id to its   *)
(* completed flag in the database and dbGoals a goal id to its             *)
(* currentValue; storeTasks and storeGoals are the lists the store holds   *)
(* in memory; linkedItems maps a goal to the task ids it links.  history   *)
(* records, for each write of a completed flag, the id and the flag before *)
(* and after.  Calls run one after the other: a call starts when the       *)
(* previous one is over.                                                   *)
(***************************************************************************)
TaskIds == {"t1", "t2"}
GoalIds == {"g1", "g2"}
GoalOrder == <<"g1", "g2">>

\* (goal.currentValue || 0) + 1
NewProgressKept(goal) == goal.currentValue
NewProgress(goal) == goal.currentValue + 1

\* const task = get().tasks.find(...); await dbUtils.updateTask(id,
\* {completed: !task.completed}).  An id the store does not hold ends the
\* call at once.
ToggleTaskCompletion ==
    /\ spc = "ready"
    /\ Len(history) < MaxCalls
    /\ \E id \in TaskIds \cup {"t9"} :
          IF id \in DOMAIN storeTasks
          THEN /\ toggledId' = id
               /\ newCompletedState' = ~storeTasks[id]
               /\ dbTasks' = [dbTasks EXCEPT ![id] = ~storeTasks[id]]
               /\ history' = Append(history, [id |-> id, from |-> dbTasks[id],
                                              to |-> ~storeTasks[id]])
               /\ spc' = IF ~storeTasks[id] THEN "goals" ELSE "loadTasks"
          ELSE /\ history' = Append(history, [id |-> id, from |-> FALSE,
                                              to |-> FALSE])
               /\ UNCHANGED <<toggledId, newCompletedState, dbTasks, spc>>
    /\ UNCHANGED <<dbGoals, storeTasks, storeGoals, linkedItems, linkedGoals>>
    /\ UNCHANGED outsideStore

\* const linkedGoals = goals.filter(goal => goal.linkedItems?.tasks?.includes(id))
FilterLinkedGoals ==
    /\ spc = "goals"
    /\ linkedGoals' =
          [k \in 1..Len(SelectSeq(GoalOrder, LAMBDA g : toggledId \in linkedItems[g])) |->
              LET g == SelectSeq(GoalOrder, LAMBDA x : toggledId \in linkedItems[x])[k]
              IN  [id |-> g, currentValue |-> storeGoals[g]]]
    /\ spc' = IF \E g \in GoalIds : toggledId \in linkedItems[g]
              THEN "progress" ELSE "loadTasks"
    /\ UNCHANGED <<dbTasks, dbGoals, storeTasks, storeGoals, linkedItems,
                   toggledId, newCompletedState, history>>
    /\ UNCHANGED outsideStore

\* One turn of the loop: await updateGoalProgress(goal.id, newProgress),
\* which writes currentValue to the database and reloads the goals.
UpdateGoalProgress ==
    /\ spc = "progress"
    /\ linkedGoals # <<>>
    /\ LET goal == Head(linkedGoals)
       IN  /\ dbGoals' = [dbGoals EXCEPT ![goal.id] = NewProgress(goal)]
           /\ storeGoals' = [dbGoals EXCEPT ![goal.id] = NewProgress(goal)]
    /\ linkedGoals' = Tail(linkedGoals)
    /\ spc' = IF Tail(linkedGoals) = <<>> THEN "loadTasks" ELSE "progress"
    /\ UNCHANGED <<dbTasks, storeTasks, linkedItems, toggledId,
                   newCompletedState, history>>
    /\ UNCHANGED outsideStore

\* await get().loadTasks(): the call is over.
LoadTasks ==
    /\ spc = "loadTasks"
    /\ storeTasks' = dbTasks
    /\ spc' = "ready"
    /\ UNCHANGED <<dbTasks, dbGoals, storeGoals, linkedItems, toggledId,
                   newCompletedState, linkedGoals, history>>
    /\ UNCHANGED outsideStore

\* The currentValue of the goals when the store is loaded.
InitialValue == [g \in GoalIds |-> IF g = "g1" THEN 0 ELSE 2]

StoreInit ==
    /\ dbTasks \in [TaskIds -> BOOLEAN]
    /\ storeTasks = dbTasks
    /\ dbGoals = InitialValue
    /\ storeGoals = InitialValue
    /\ linkedItems \in [GoalIds -> SUBSET TaskIds]
    /\ toggledId = ""
    /\ newCompletedState = FALSE
    /\ linkedGoals = <<>>
    /\ history = <<>>
    /\ spc = "ready"
    /\ ExpandIdle
    /\ ConflictIdle
    /\ RolloverIdle
    /\ TimelineIdle
    /\ WorkloadIdle
    /\ ColorIdle
    /\ ViewsIdle

StoreNext ==
    ToggleTaskCompletion \/ FilterLinkedGoals \/ UpdateGoalProgress \/ LoadTasks

StoreSpec == StoreInit /\ [][StoreNext]_vars

(***************************************************************************)
(* Properties of the expander.                                             *)
(***************************************************************************)
Front(s) == SubSeq(s, 1, Len(s) - 1)

\* The positions of the output that hold an occurrence expanded from event.
OccurrencesOf(event) ==
    {i \in 1..Len(instances) :
        /\ Len(instances[i].id) = Len(event.id) + 1
        /\ Front(instances[i].id) = event.id}

\* The positions of the output that hold the event itself.
CopiesOf(event) == {i \in 1..Len(instances) : instances[i] = event}

OccurrenceStarts(event) == {instances[i].startDate : i \in OccurrencesOf(event)}

RuleOf(event) == event.recurrence[1]

\* The kind of an event's rule; an event without a rule is of kind 'none'.
KindOf(event) ==
    IF event.recurrence = <<>> THEN "none" ELSE event.recurrence[1].type

\* The timestamps anchor + k days (k >= 0) inside the window.
DaysFromAnchor(anchor) ==
    {t \in viewStart..viewEnd : t >= anchor /\ (t - anchor) % TicksPerDay = 0}

\* C1: every entity the expander holds for return starts inside the closed
\* window [viewStart, viewEnd].
C1_WindowContainment ==
    \A i \in 1..Len(instances) :
        viewStart <= instances[i].startDate /\ instances[i].startDate <= viewEnd

\* An expansion returned occurrences of an event anchored before the window
\* whose cursor went on past the window's end.
C1_Witness ==
    /\ pc = "returned"
    /\ \E k \in 1..Len(events) :
          /\ OccurrencesOf(events[k]) # {}
          /\ events[k].startDate < viewStart
          /\ currentDate > viewEnd

\* C2: every occurrence expanded from an event lasts exactly as long as the
\* event: endDate - startDate is the source's endDate - startDate.
C2_DurationPreserved ==
    \A k \in 1..Len(events) : \A i \in OccurrencesOf(events[k]) :
        instances[i].endDate - instances[i].startDate
            = events[k].endDate - events[k].startDate

C2_Witness ==
    /\ pc = "returned"
    /\ \E k \in 1..Len(events) :
          /\ events[k].endDate - events[k].startDate = MaxDuration
          /\ \E i \in OccurrencesOf(events[k]) :
                instances[i].startDate # events[k].startDate

\* C3: every iteration of the expansion loop moves the cursor forward by at
\* least one day, whatever the rule's interval (0 and negative intervals
\* behaving as 1).
C3_CursorAdvances ==
    [][(pc = "while" /\ pc' = "while")
          => currentDate' >= currentDate + TicksPerDay]_vars

\* C4: when the expander returns, an event without a rule or of kind 'none'
\* is in the output, unchanged and exactly once, iff it starts in the window.
C4_NonRecurringPassThrough ==
    pc = "returned" =>
        \A k \in 1..Len(events) :
            KindOf(events[k]) = "none" =>
                /\ Cardinality(CopiesOf(events[k])) =
                      (IF viewStart <= events[k].startDate
                          /\ events[k].startDate <= viewEnd THEN 1 ELSE 0)
                /\ OccurrencesOf(events[k]) = {}

C4_Witness ==
    /\ pc = "returned"
    /\ Len(events) = 2
    /\ events[1].recurrence = <<>>
    /\ CopiesOf(events[1]) # {}
    /\ OccurrencesOf(events[2]) # {}

C4_WitnessOutside ==
    /\ pc = "returned"
    /\ Len(events) = 1
    /\ events[1].recurrence # <<>>
    /\ KindOf(events[1]) = "none"
    /\ events[1].startDate > viewEnd
    /\ instances = <<>>

\* C5: when the expander returns, the occurrences of a daily rule with
\* interval N >= 1 anchored at s are exactly the dates s + k*N days (k >= 0)
\* inside the window, each once.
C5_DailyOccurrences ==
    pc = "returned" =>
        \A k \in 1..Len(events) :
            (/\ KindOf(events[k]) = "daily"
             /\ RuleOf(events[k]).interval >= 1) =>
                /\ OccurrenceStarts(events[k]) =
                      {t \in DaysFromAnchor(events[k].startDate) :
                          (t - events[k].startDate)
                              % (RuleOf(events[k]).interval * TicksPerDay) = 0}
                /\ Cardinality(OccurrencesOf(events[k]))
                      = Cardinality(OccurrenceStarts(events[k]))

\* Scenario A: interval 2 from 2024-01-01 over [01-01, 01-10].
C5_Witness ==
    /\ pc = "returned"
    /\ Len(events) = 1
    /\ KindOf(events[1]) = "daily"
    /\ RuleOf(events[1]).interval = 2
    /\ events[1].startDate = At(Jan(1), 0)
    /\ viewStart = At(Jan(1), 0)
    /\ viewEnd = At(Jan(10), 0)
    /\ [i \in 1..Len(instances) |-> instances[i].startDate]
          = <<At(Jan(1), 0), At(Jan(3), 0), At(Jan(5), 0), At(Jan(7), 0), At(Jan(9), 0)>>

\* The window starts after the anchor, on a day the rule skips.
C5_WitnessLateWindow ==
    /\ pc = "returned"
    /\ Len(events) = 1
    /\ KindOf(events[1]) = "daily"
    /\ RuleOf(events[1]).interval = 2
    /\ events[1].startDate = At(Jan(1), 0)
    /\ viewStart = At(Jan(3), LastTick)
    /\ viewEnd = At(Jan(7), LastTick)
    /\ [i \in 1..Len(instances) |-> instances[i].startDate]
          = <<At(Jan(5), 0), At(Jan(7), 0)>>

\* C6: when the expander returns, the occurrences of a weekly rule with
\* interval 1 and a non-empty daysOfWeek D are exactly the dates on or after
\* the anchor, inside the window, whose day of the week is in D, each once.
C6_WeeklyOccurrences ==
    pc = "returned" =>
        \A k \in 1..Len(events) :
            (/\ KindOf(events[k]) = "weekly"
             /\ RuleOf(events[k]).interval = 1
             /\ RuleOf(events[k]).daysOfWeek # {}) =>
                /\ OccurrenceStarts(events[k]) =
                      {t \in DaysFromAnchor(events[k].startDate) :
                          (DayOf(t) - Jan(1) + 1) % 7 \in RuleOf(events[k]).daysOfWeek}
                /\ Cardinality(OccurrencesOf(events[k]))
                      = Cardinality(OccurrenceStarts(events[k]))

\* Scenario B: anchored on Monday 2024-01-01, D = {1, 3, 5}, over the seven
\* days from the anchor: Monday, Wednesday and Friday.
C6_Witness ==
    /\ pc = "returned"
    /\ Len(events) = 1
    /\ KindOf(events[1]) = "weekly"
    /\ RuleOf(events[1]).interval = 1
    /\ RuleOf(events[1]).daysOfWeek = {1, 3, 5}
    /\ events[1].startDate = At(Jan(1), 0)
    /\ viewStart = At(Jan(1), 0)
    /\ viewEnd = At(Jan(7), LastTick)
    /\ [i \in 1..Len(instances) |-> instances[i].startDate]
          = <<At(Jan(1), 0), At(Jan(3), 0), At(Jan(5), 0)>>

\* C7: an occurrence of a monthly rule with dayOfMonth = d falls on day d of
\* its month; with d = 31 no occurrence falls in February.
C7_MonthlyDayOfMonth ==
    \A k \in 1..Len(events) :
        KindOf(events[k]) = "monthly" =>
            \A i \in OccurrencesOf(events[k]) :
                /\ getDate(instances[i].startDate) = RuleOf(events[k]).dayOfMonth
                /\ RuleOf(events[k]).dayOfMonth = 31
                      => getMonth(instances[i].startDate) # 1

\* dayOfMonth 31 anchored on 2024-01-31 over a window that holds February:
\* the cursor went through February to March and left one occurrence.
C7_Witness ==
    /\ pc = "returned"
    /\ Len(events) = 1
    /\ KindOf(events[1]) = "monthly"
    /\ RuleOf(events[1]).dayOfMonth = 31
    /\ RuleOf(events[1]).interval = 1
    /\ events[1].startDate = At(Jan(31), 0)
    /\ viewEnd = At(Mar(1), LastTick)
    /\ currentDate = At(Mar(29), 0)
    /\ [i \in 1..Len(instances) |-> instances[i].startDate] = <<At(Jan(31), 0)>>

\* C8: no occurrence of a rule that carries an endDate starts on or after
\* that endDate (stated for the rules whose interval is at least 1).
C8_EndDateRespected ==
    \A k \in 1..Len(events) :
        (IF KindOf(events[k]) = "none" THEN FALSE
         ELSE RuleOf(events[k]).interval >= 1) =>
            \A e \in RuleOf(events[k]).endDate :
                \A i \in OccurrencesOf(events[k]) : instances[i].startDate < e

\* C9: when the expander returns, an event of an unsupported kind ('custom')
\* has no occurrences and is itself in the output iff it starts in the
\* window, as an event of kind 'none' is.
C9_UnknownKindPassesThrough ==
    pc = "returned" =>
        \A k \in 1..Len(events) :
            KindOf(events[k]) = "custom" =>
                /\ OccurrencesOf(events[k]) = {}
                /\ Cardinality(CopiesOf(events[k])) =
                      (IF viewStart <= events[k].startDate
                          /\ events[k].startDate <= viewEnd THEN 1 ELSE 0)

(***************************************************************************)
(* Properties of the conflict detector.                                    *)
(***************************************************************************)
\* The items the claim names: another id, an end, and
\* item.start < candidate.end and candidate.start < item.end.
ExpectedConflict(item) ==
    /\ item.id # currentItem.id
    /\ item.endTime # {}
    /\ \A s \in item.startTime, e \in item.endTime :
          \A cs \in currentItem.startTime, ce \in currentItem.endTime :
              s < ce /\ cs < e

Members(seq) == {seq[i] : i \in 1..Len(seq)}

\* C11: conflict detection is symmetric: when an item B of the list is
\* reported for a candidate A that is itself an item of the list, A is
\* reported for the candidate B.
C11_ConflictSymmetry ==
    (cpc = "reversed" /\ otherItem \in Members(allItems))
        => otherItem \in Members(conflicts)

\* Two items of one list, of distinct ids, each reported for the other.
C11_Witness ==
    /\ cpc = "reversed"
    /\ otherItem \in Members(allItems)
    /\ currentItem \in Members(allItems)
    /\ otherItem.id # currentItem.id
    /\ otherItem.startTime # currentItem.startTime
    /\ otherItem \in Members(conflicts)

(***************************************************************************)
(* Properties of the rollover.                                             *)
(***************************************************************************)
\* A task is incomplete when nothing marks it completed: neither the
\* completed flag nor the status 'done' of the task schema, nor the status
\* 'completed'.
Incomplete(task) == ~task.completed /\ task.status \notin {"done", "completed"}

\* The calendar day of the task's dueDate is before the day of now.
DueBeforeToday(task) == \E d \in task.dueDate : DayOf(d.time) < DayOf(now)

\* C12: after the rollover every incomplete task due on a day before today
\* has dueDate = today's midnight and isAutoRolled = true, and no incomplete
\* task is due before today.
C12_RolloverFloor ==
    rpc = "returned" =>
        /\ Len(rolled) = Len(tasks)
        /\ \A k \in 1..Len(tasks) :
              (Incomplete(tasks[k]) /\ DueBeforeToday(tasks[k])) =>
                  /\ {d.time : d \in rolled[k].dueDate} = {At(DayOf(now), 0)}
                  /\ rolled[k].isAutoRolled = {TRUE}
        /\ \A k \in 1..Len(rolled) :
              Incomplete(rolled[k]) =>
                  \A d \in rolled[k].dueDate : d.time >= At(DayOf(now), 0)

\* Scenario E: a 'todo' task due 2024-01-01, rolled over on 2024-01-05.
C12_Witness ==
    /\ rpc = "returned"
    /\ Len(tasks) = 1
    /\ tasks[1].status = "todo"
    /\ ~tasks[1].completed
    /\ tasks[1].dueDate = {DateValue(At(Jan(1), 0))}
    /\ now = At(Jan(5), LastTick)
    /\ {d.time : d \in rolled[1].dueDate} = {At(Jan(5), 0)}
    /\ rolled[1].isAutoRolled = {TRUE}

\* C13: the rollover returns unchanged every completed task, every task due
\* today or later, and every task without a dueDate.
C13_RolloverFrame ==
    rpc = "returned" =>
        \A k \in 1..Len(tasks) :
            (\/ ~Incomplete(tasks[k])
             \/ tasks[k].dueDate = {}
             \/ ~DueBeforeToday(tasks[k])) => rolled[k] = tasks[k]

\* The part of C13 that the code keeps: tasks due today or later and tasks
\* without a dueDate are returned unchanged.
C13_NotDueUnchanged ==
    rpc = "returned" =>
        \A k \in 1..Len(tasks) :
            (tasks[k].dueDate = {} \/ ~DueBeforeToday(tasks[k]))
                => rolled[k] = tasks[k]

(***************************************************************************)
(* Properties of the normalizer.                                           *)
(***************************************************************************)
\* Where an item comes from: the number of its list (tasks, events, goals,
\* reminders, time blocks) and the position of its source in that list.
PositionIn(list, id) == CHOOSE k \in 1..Len(list) : list[k].id = id

InputOrder(item) ==
    CASE item.type = "task" -> <<1, PositionIn(snapshot.tasks, item.id)>>
      [] item.type = "event" -> <<2, PositionIn(snapshot.events, item.id)>>
      [] item.type = "goal" -> <<3, PositionIn(snapshot.goals, item.id)>>
      [] item.type = "reminder" -> <<4, PositionIn(snapshot.reminders, item.id)>>
      [] item.type = "timeblock" -> <<5, PositionIn(snapshot.timeBlocks, item.id)>>

ComesBefore(a, b) == a[1] < b[1] \/ (a[1] = b[1] /\ a[2] < b[2])

\* C14: the list convertToCalendarItems returns is sorted ascending by
\* startTime, and items with equal startTime are in input order.
C14_SortedStable ==
    tpc = "returned" =>
        \A i, j \in 1..Len(calendarItems) :
            i < j =>
                LET a == calendarItems[i]
                    b == calendarItems[j]
                    ta == CHOOSE t \in a.startTime : TRUE
                    tb == CHOOSE t \in b.startTime : TRUE
                IN  /\ ta <= tb
                    /\ ta = tb => ComesBefore(InputOrder(a), InputOrder(b))

\* A later task starts before an earlier one, and ties across and within
\* lists are kept in input order.
C14_Witness ==
    /\ tpc = "returned"
    /\ Len(snapshot.tasks) = 2
    /\ \E d \in snapshot.tasks[1].dueDate, e \in snapshot.tasks[2].dueDate :
          e.time < d.time
    /\ Len(snapshot.events) = 2
    /\ snapshot.events[1].startDate = snapshot.events[2].startDate
    /\ Len(calendarItems) >= 5
    /\ calendarItems[1].id = <<"t2">>
    /\ \E i \in 1..Len(calendarItems) - 1 :
          calendarItems[i].id = <<"e1">> /\ calendarItems[i + 1].id = <<"e2">>

(***************************************************************************)
(* Properties of the workload.                                             *)
(***************************************************************************)
\* The items of the grid that start on the local calendar day of a date.
OnDay(date) == {k \in 1..Len(items) : \E t \in items[k].startTime : DayOf(t) = DayOf(date)}

MissingAs30(k) ==
    IF items[k].duration = {} THEN 30 ELSE CHOOSE n \in items[k].duration : TRUE

RECURSIVE SumOver(_)
SumOver(indices) ==
    IF indices = {} THEN 0
    ELSE LET k == CHOOSE x \in indices : TRUE
         IN  MissingAs30(k) + SumOver(indices \ {k})

\* C15: the workload of a day is the sum, over exactly the items that start
\* on that local calendar day, of the item's duration, where only a missing
\* duration counts as 30.
C15_DailyWorkload ==
    wpc # "called" =>
        \A day \in calendarDays : workload[day] = SumOver(OnDay(day))

\* C15, for the items whose duration is not 0: same sum.
C15_NonZeroDurations ==
    (wpc # "called" /\ \A k \in 1..Len(items) : items[k].duration # {0}) =>
        \A day \in calendarDays : workload[day] = SumOver(OnDay(day))

\* Scenario F: a day of a 90-minute item and a 15-minute item gives 105.
C15_ScenarioF ==
    /\ wpc = "colored"
    /\ \E day \in calendarDays :
          /\ OnDay(day) = {1, 2}
          /\ items[1].duration = {90}
          /\ items[2].duration = {15}
          /\ workload[day] = 105
          /\ workloadColor[day] = "bg-green-200"

\* The buckets of the classification, in increasing order of intensity.
BucketRank(class) ==
    CASE class = "bg-gray-100" -> 0
      [] class = "bg-green-200" -> 1
      [] class = "bg-yellow-200" -> 2
      [] class = "bg-orange-200" -> 3
      [] class = "bg-red-200" -> 4

Classes == {"bg-gray-100", "bg-green-200", "bg-yellow-200", "bg-orange-200", "bg-red-200"}

\* C16: the classification is total over the minute totals, with the five
\* buckets 0, 1..120, 121..240, 241..360 and above 360, and it is monotone
\* in the minute total.
C16_IntensityBuckets ==
    wpc = "colored" =>
        /\ \A day \in calendarDays :
              LET minutes == workload[day]
                  class == workloadColor[day]
              IN  /\ class \in Classes
                  /\ class = "bg-gray-100" <=> minutes = 0
                  /\ class = "bg-green-200" <=> minutes \in 1..120
                  /\ class = "bg-yellow-200" <=> minutes \in 121..240
                  /\ class = "bg-orange-200" <=> minutes \in 241..360
                  /\ class = "bg-red-200" <=> minutes > 360
        /\ \A day, other \in calendarDays :
              workload[day] <= workload[other] =>
                  BucketRank(workloadColor[day]) <= BucketRank(workloadColor[other])

\* One day totals 120 minutes and the other 121: two buckets.
C16_Witness ==
    /\ wpc = "colored"
    /\ \E day, other \in calendarDays :
          /\ workload[day] = 120
          /\ workload[other] = 121
          /\ workloadColor[day] = "bg-green-200"
          /\ workloadColor[other] = "bg-yellow-200"

\* The other boundaries and the empty day.
C16_WitnessUpper ==
    /\ wpc = "colored"
    /\ \E day, other \in calendarDays :
          /\ workload[day] \in {240, 360}
          /\ workload[other] \in {241, 361}
          /\ workload[other] = workload[day] + 1

C16_WitnessNone ==
    /\ wpc = "colored"
    /\ \E day, other \in calendarDays : workload[day] = 0 /\ workload[other] = 1

(***************************************************************************)
(* Properties of the expander: the rules' intervals and the input.         *)
(***************************************************************************)
\* C17: the expander never changes its input: no step of a call changes the
\* event list or any field of any of its events.
C17_InputNotMutated == [][events' = events]_vars

\* The expander has returned two occurrences of a recurring event and a
\* non-recurring event itself.
C17_Witness ==
    /\ pc = "returned"
    /\ \E k \in 1..Len(events) :
          /\ KindOf(events[k]) \in {"daily", "weekly", "monthly"}
          /\ Cardinality(OccurrencesOf(events[k])) >= 2
    /\ \E k \in 1..Len(events) :
          /\ KindOf(events[k]) = "none"
          /\ CopiesOf(events[k]) # {}

\* C18: when the expander returns, the occurrences of a weekly rule without
\* days of the week (interval 1) are the dates on or after the anchor,
\* inside the window, that fall on the anchor's day of the week.
C18_WeeklyAnchorWeekday ==
    pc = "returned" =>
        \A k \in 1..Len(events) :
            (/\ KindOf(events[k]) = "weekly"
             /\ RuleOf(events[k]).interval = 1
             /\ RuleOf(events[k]).daysOfWeek = {}) =>
                OccurrenceStarts(events[k]) =
                    {t \in DaysFromAnchor(events[k].startDate) :
                        (DayOf(t) - DayOf(events[k].startDate)) % 7 = 0}

\* The week of a timestamp, weeks running from Sunday to Saturday.
WeekOf(t) == (DayOf(t) + 5) \div 7

\* C19: when the expander returns, the occurrences of a weekly rule with
\* interval N > 1 and days of the week D are exactly the dates on or after
\* the anchor, inside the window, whose day of the week is in D and whose
\* week is a multiple of N weeks after the anchor's week, each once.
C19_WeeklyInterval ==
    pc = "returned" =>
        \A k \in 1..Len(events) :
            (/\ KindOf(events[k]) = "weekly"
             /\ RuleOf(events[k]).interval > 1
             /\ RuleOf(events[k]).daysOfWeek # {}) =>
                /\ OccurrenceStarts(events[k]) =
                      {t \in DaysFromAnchor(events[k].startDate) :
                          /\ getDay(t) \in RuleOf(events[k]).daysOfWeek
                          /\ (WeekOf(t) - WeekOf(events[k].startDate))
                                % RuleOf(events[k]).interval = 0}
                /\ Cardinality(OccurrencesOf(events[k]))
                      = Cardinality(OccurrenceStarts(events[k]))

\* C19, the part that holds: every occurrence of a weekly rule falls on one
\* of the rule's days of the week, on or after the anchor.
C19_OnlyListedWeekdays ==
    \A k \in 1..Len(events) :
        KindOf(events[k]) = "weekly" =>
            \A t \in OccurrenceStarts(events[k]) :
                /\ getDay(t) \in RuleOf(events[k]).daysOfWeek
                /\ t >= events[k].startDate

\* The day of the month a monthly rule asks for: dayOfMonth when set, the
\* anchor's own day otherwise.
MonthlyDay(event) ==
    IF RuleOf(event).dayOfMonth # 0 THEN RuleOf(event).dayOfMonth
    ELSE getDate(event.startDate)

\* C20: when the expander returns, the occurrences of a monthly rule with
\* interval N >= 1 are the dates on or after the anchor, inside the window,
\* on the rule's day of every N-th month from the anchor's month, each once.
C20_MonthlyInterval ==
    pc = "returned" =>
        \A k \in 1..Len(events) :
            (/\ KindOf(events[k]) = "monthly"
             /\ RuleOf(events[k]).interval >= 1) =>
                /\ OccurrenceStarts(events[k]) =
                      {t \in DaysFromAnchor(events[k].startDate) :
                          /\ getDate(t) = MonthlyDay(events[k])
                          /\ (IndexOfDay(DayOf(t)) - IndexOfDay(DayOf(events[k].startDate)))
                                % RuleOf(events[k]).interval = 0}
                /\ Cardinality(OccurrencesOf(events[k]))
                      = Cardinality(OccurrenceStarts(events[k]))

\* C20, for the rules whose dayOfMonth is the anchor's own day, at most 28.
C20_AnchoredOnItsDay ==
    pc = "returned" =>
        \A k \in 1..Len(events) :
            (/\ KindOf(events[k]) = "monthly"
             /\ RuleOf(events[k]).interval >= 1
             /\ RuleOf(events[k]).dayOfMonth = getDate(events[k].startDate)
             /\ RuleOf(events[k]).dayOfMonth <= 28) =>
                /\ OccurrenceStarts(events[k]) =
                      {t \in DaysFromAnchor(events[k].startDate) :
                          /\ getDate(t) = MonthlyDay(events[k])
                          /\ (IndexOfDay(DayOf(t)) - IndexOfDay(DayOf(events[k].startDate)))
                                % RuleOf(events[k]).interval = 0}
                /\ Cardinality(OccurrencesOf(events[k]))
                      = Cardinality(OccurrenceStarts(events[k]))

\* C21: the expansion of a yearly rule completes without raising, and when
\* it returns, the occurrences of the rule are the cursor dates inside the
\* window (here the anchor itself, the calendar of the model holding one
\* year) whose month is monthOfYear and whose day is dayOfMonth.
C21_YearlyExpansion ==
    /\ pc # "threw"
    /\ pc = "returned" =>
          \A k \in 1..Len(events) :
              KindOf(events[k]) = "yearly" =>
                  OccurrenceStarts(events[k]) =
                      {t \in {events[k].startDate} :
                          /\ t >= viewStart /\ t <= viewEnd
                          /\ getMonth(t) + 1 = RuleOf(events[k]).monthOfYear
                          /\ getDate(t) = RuleOf(events[k]).dayOfMonth}

\* C21, the part that holds: a call with a yearly rule whose anchor is not
\* after the window never returns.
C21_YearlyNeverReturns ==
    pc = "returned" =>
        \A k \in 1..Len(events) :
            KindOf(events[k]) = "yearly" => events[k].startDate > viewEnd

HasExceptions(event) ==
    IF KindOf(event) = "none" THEN FALSE
    ELSE "exceptions" \in DOMAIN RuleOf(event)

\* C22: when the expander returns, a rule that carries exception dates has no
\* occurrence on any of them, and (for a daily rule of interval 1) it has an
\* occurrence on every other date from the anchor inside the window.
C22_ExceptionsSkipped ==
    pc = "returned" =>
        \A k \in 1..Len(events) :
            HasExceptions(events[k]) =>
                /\ \A t \in OccurrenceStarts(events[k]) :
                      format(t) \notin RuleOf(events[k]).exceptions
                /\ \A t \in DaysFromAnchor(events[k].startDate) :
                      format(t) \notin RuleOf(events[k]).exceptions
                          => t \in OccurrenceStarts(events[k])

\* C22, the part that holds: the dates outside the exception set are all
\* generated.
C22_OtherDatesGenerated ==
    pc = "returned" =>
        \A k \in 1..Len(events) :
            HasExceptions(events[k]) =>
                \A t \in DaysFromAnchor(events[k].startDate) :
                    format(t) \notin RuleOf(events[k]).exceptions
                        => t \in OccurrenceStarts(events[k])

ItemsOf(category, id) ==
    {i \in 1..Len(calendarItems) :
        calendarItems[i].type = category /\ calendarItems[i].id = id}

\* Exactly one item of the category has the id, and it starts at start.
OneItem(category, id, start) ==
    /\ Cardinality(ItemsOf(category, id)) = 1
    /\ \A i \in ItemsOf(category, id) : calendarItems[i].startTime = {start}

Dated(list, field) == {k \in 1..Len(list) : list[k][field] # {}}

\* C24: the timeline holds exactly one item for each task with a dueDate,
\* each event, each goal with a deadline, each reminder and each time block,
\* with the id, the category and the start of its source, no item for a task
\* without dueDate or a goal without deadline, and no other item; the item
\* of a task has no endTime.
C24_OneItemPerSource ==
    tpc = "returned" =>
        /\ \A k \in 1..Len(snapshot.tasks) :
              LET task == snapshot.tasks[k]
              IN  IF task.dueDate = {} THEN ItemsOf("task", task.id) = {}
                  ELSE /\ \A d \in task.dueDate : OneItem("task", task.id, d.time)
                       /\ \A i \in ItemsOf("task", task.id) :
                             calendarItems[i].endTime = {}
        /\ \A k \in 1..Len(snapshot.events) :
              OneItem("event", snapshot.events[k].id, snapshot.events[k].startDate)
        /\ \A k \in 1..Len(snapshot.goals) :
              LET goal == snapshot.goals[k]
              IN  IF goal.deadline = {} THEN ItemsOf("goal", goal.id) = {}
                  ELSE \A d \in goal.deadline : OneItem("goal", goal.id, d)
        /\ \A k \in 1..Len(snapshot.reminders) :
              OneItem("reminder", snapshot.reminders[k].id,
                      snapshot.reminders[k].remindAt)
        /\ \A k \in 1..Len(snapshot.timeBlocks) :
              OneItem("timeblock", snapshot.timeBlocks[k].id,
                      snapshot.timeBlocks[k].startTime)
        /\ Len(calendarItems) =
              Cardinality(Dated(snapshot.tasks, "dueDate")) + Len(snapshot.events)
                  + Cardinality(Dated(snapshot.goals, "deadline"))
                  + Len(snapshot.reminders) + Len(snapshot.timeBlocks)

\* A snapshot with sources of every category, among them a task without
\* dueDate next to a task with one, has been normalized.
C24_Witness ==
    /\ tpc = "returned"
    /\ Len(snapshot.tasks) = 2
    /\ snapshot.tasks[1].dueDate = {}
    /\ snapshot.tasks[2].dueDate # {}
    /\ Len(snapshot.events) = 1
    /\ Len(snapshot.goals) = 1
    /\ snapshot.goals[1].deadline # {}
    /\ Len(snapshot.reminders) = 1
    /\ Len(snapshot.timeBlocks) = 1
    /\ Len(calendarItems) = 5

\* C25: every item of the timeline carries the duration of its category, 30
\* minutes for a goal and 15 for a reminder, so that a timeline made of one
\* reminder gives its day a workload of 15.
C25_CategoryDurations ==
    tpc = "returned" =>
        /\ \A i \in 1..Len(calendarItems) :
              /\ calendarItems[i].duration # {}
              /\ calendarItems[i].type = "goal" => calendarItems[i].duration = {30}
              /\ calendarItems[i].type = "reminder" => calendarItems[i].duration = {15}
        /\ (Len(calendarItems) = 1 /\ Len(snapshot.reminders) = 1) =>
              calculateWorkload(calendarItems, snapshot.reminders[1].remindAt) = 15

\* C25, what the code does: no item carries a duration, and each item counts
\* as 30 minutes in the workload of its day.
C25_NoDurationSet ==
    tpc = "returned" =>
        /\ \A i \in 1..Len(calendarItems) : calendarItems[i].duration = {}
        /\ \A t \in Instants :
              calculateWorkload(calendarItems, t) = 30 * Len(calendarItems)

(***************************************************************************)
(* Properties of the project colour.                                       *)
(***************************************************************************)
\* h * 31 + code, wrapped to the signed 32-bit range.
Wrapped31(h, code) == Int32(31 * High(h), 31 * Low(h) + code)

RECURSIVE RollingHash(_)
RollingHash(string) ==
    IF string = <<>> THEN 0
    ELSE Wrapped31(RollingHash(SubSeq(string, 1, Len(string) - 1)),
                   string[Len(string)])

\* C26: for a non-empty project the colour is colors[abs(h) mod 8], h being
\* the rolling hash of the string, with an index in 0..7; for an empty or
\* undefined project it is the neutral default.
C26_ProjectColor ==
    gpc = "returned" =>
        IF \A string \in project : string = <<>>
        THEN projectColor = "bg-gray-500"
        ELSE \A string \in project :
                /\ hash = RollingHash(string)
                /\ hash >= -2147483647 - 1
                /\ hash <= 2147483647
                /\ \E index \in 0..7 :
                      /\ projectColor = colors[index + 1]
                      /\ hash >= 0 => (hash - index) % 8 = 0
                      /\ hash < 0 => (hash + index) % 8 = 0

\* The hash of "GydZG_" is the least 32-bit integer: colour 0.
C26_Witness ==
    /\ gpc = "returned"
    /\ project = {<<71, 121, 100, 90, 71, 95>>}
    /\ hash = -2147483647 - 1
    /\ projectColor = "bg-blue-500"

\* A hash that wrapped to a negative value other than the least one.
C26_WitnessNegative ==
    /\ gpc = "returned"
    /\ project = {<<72, 101, 97, 108, 116, 104>>}
    /\ hash = -2137395588
    /\ projectColor = "bg-yellow-500"

\* The empty string and the undefined project.
C26_WitnessEmpty == gpc = "returned" /\ project = {<<>>} /\ projectColor = "bg-gray-500"
C26_WitnessUndefined == gpc = "returned" /\ project = {} /\ projectColor = "bg-gray-500"

(***************************************************************************)
(* Properties of the conflict detector: intervals without duration.        *)
(***************************************************************************)
ZeroDuration(item) ==
    item.startTime # {} /\ item.endTime = item.startTime

\* C27: an interval without duration never conflicts: nothing is reported
\* for a candidate whose startTime is its endTime, and no item whose
\* startTime is its endTime is reported for any candidate.
C27_ZeroDurationNeverConflicts ==
    cpc = "returned" =>
        /\ ZeroDuration(currentItem) => conflicts = <<>>
        /\ \A j \in 1..Len(conflicts) : ~ZeroDuration(conflicts[j])

\* C27, what the code does: an interval without duration conflicts with an
\* item exactly when its instant lies strictly inside the item's interval.
C27_ZeroDurationStrictlyInside ==
    cpc = "returned" =>
        /\ ZeroDuration(currentItem) =>
              \A k \in 1..Len(allItems) :
                  (allItems[k] \in Members(conflicts)) <=>
                      /\ allItems[k].id # currentItem.id
                      /\ \E t \in currentItem.startTime :
                            \E s \in allItems[k].startTime, e \in allItems[k].endTime :
                                s < t /\ t < e
        /\ \A j \in 1..Len(conflicts) :
              ZeroDuration(conflicts[j]) =>
                  \E t \in conflicts[j].startTime :
                      \E cs \in currentItem.startTime, ce \in currentItem.endTime :
                          cs < t /\ t < ce

(***************************************************************************)
(* Properties of the views.                                                *)
(***************************************************************************)
\* The entities of a list that start inside a window, in the list's order.
StartingIn(list, window) ==
    SelectSeq(list, LAMBDA e : e.startDate >= window[1] /\ e.startDate <= window[2])

\* The stepwise expander and generateEventInstances as one value agree.
ExpansionAgrees ==
    /\ pc = "returned" =>
          generateEventInstances(events, viewStart, viewEnd)
              = Outcome("returned", instances)
    /\ pc = "threw" =>
          generateEventInstances(events, viewStart, viewEnd).status = "threw"

\* C28: the expansion over a window W' contained in W returns exactly the
\* entities of the expansion over W that start in W', in the same order.
C28_WindowConsistent ==
    vpc = {"month", "year"} =>
        /\ monthResult.status = "returned" => yearResult.status = "returned"
        /\ monthResult.status = "returned" =>
              monthResult.instances = StartingIn(yearResult.instances, monthWindow)

\* C28, when both expansions return: the narrow one is the part of the wide
\* one that starts in the narrow window.
C28_ConsistentWhenBothReturn ==
    (/\ vpc = {"month", "year"}
     /\ monthResult.status = "returned"
     /\ yearResult.status = "returned") =>
        monthResult.instances = StartingIn(yearResult.instances, monthWindow)

\* Both views returned, the wide one with occurrences outside the narrow
\* window and the narrow one with some of them.
C28_BothReturnWitness ==
    /\ vpc = {"month", "year"}
    /\ monthResult.status = "returned"
    /\ yearResult.status = "returned"
    /\ Len(monthResult.instances) >= 2
    /\ Len(yearResult.instances) > Len(monthResult.instances)

(***************************************************************************)
(* Properties of the rollover: shape and idempotence.                      *)
(***************************************************************************)
\* The fields the rollover may set.
RolledFields == {"dueDate", "isAutoRolled"}

SameShape(before, after) ==
    /\ Len(after) = Len(before)
    /\ \A k \in 1..Len(before) :
          /\ DOMAIN after[k] = DOMAIN before[k]
          /\ \A field \in DOMAIN before[k] \ RolledFields :
                after[k][field] = before[k][field]

\* C29: for a fixed day, a call of autoRolloverTasks leaves its input as it
\* was and returns a list of the same length and task order in which only
\* dueDate and isAutoRolled may differ, and a second call on that list
\* returns it unchanged.
C29_RolloverIdempotent ==
    [][/\ tasks' = tasks
       /\ rpc' = "returned" => SameShape(tasks, rolled')
       /\ rpc' = "reapplied" => rolled' = rolled]_vars

\* The second call has returned, on a list of two tasks of which the first
\* call rolled one and kept the other.
C29_Witness ==
    /\ rpc = "reapplied"
    /\ Len(tasks) = 2
    /\ rolled[1] # tasks[1]
    /\ rolled[1].isAutoRolled = {TRUE}
    /\ rolled[2] = tasks[2]

(***************************************************************************)
(* Properties of the store.                                                *)
(***************************************************************************)
\* The writes that took a task a goal links from incomplete to complete.
Completions(goal) ==
    {i \in 1..Len(history) :
        /\ history[i].id \in linkedItems[goal]
        /\ history[i].from = FALSE
        /\ history[i].to = TRUE}

\* Between two calls, each goal has gained one per completion of a task it
\* links, in the database and in the store.
ProgressCounted ==
    spc = "ready" =>
        \A goal \in GoalIds :
            /\ dbGoals[goal] = InitialValue[goal] + Cardinality(Completions(goal))
            /\ storeGoals[goal] = dbGoals[goal]

====
